---- MODULE Spec2Model ----
(***************************************************************************)
(* Model of the plugin host (host-program/src/main.rs), the handler type   *)
(* of the plugin SDK (plugin-sdk/src/lib.rs) and the modules the host can  *)
(* load.  Strings are sequences of one-character strings.                  *)
(***************************************************************************)
EXTENDS Integers, Sequences, FiniteSets, TLC

VARIABLES
    pc,                      \* position of run(): "prompt", "read", "registering",
                             \* "error", "returned_ok", "returned_err", "crashed"
    module,                  \* PluginState.module (NULL or a dlopen handle)
    path,                    \* PluginState.path (None or Some CString)
    custom_prompt_function,  \* PluginState.custom_prompt_function (None or Some handle of the module it points into)
    custom_commands,         \* PluginState.custom_commands: name -> handler id
    handlers,                \* every CommandHandler constructed so far, by id
    nloads,                  \* number of successful dlopen calls (the last handle handed out)
    opened,                  \* the handles dlopen returned that dlclose has not released
    prompt,                  \* the prompt rendered last
    line,                    \* the line read last
    events,                  \* what the command read last did, in order
    unloaded_names           \* names registered by modules that were unloaded since

vars == <<pc, module, path, custom_prompt_function, custom_commands, handlers,
          nloads, opened, prompt, line, events, unloaded_names>>

plugin_state == <<module, path, custom_prompt_function, custom_commands>>

----------------------------------------------------------------------------
(* Bounds *)

MaxRegs == 2        \* ffi_register_command calls one register-commands call makes
MaxHandlers == 3    \* handlers constructed over one run of the host
MaxLoads == 2       \* successful dlopen calls over one run of the host

----------------------------------------------------------------------------
(* Strings *)

\* Option: None, or Some(x).
None == <<>>
Some(x) == <<x>>
unwrap(o) == o[1]
NULL == 0
NUL == "\\0"

s_help == <<"h", "e", "l", "p">>
s_echo == <<"e", "c", "h", "o">>
s_exit == <<"e", "x", "i", "t">>
s_load_plugin == <<"l", "o", "a", "d", "-", "p", "l", "u", "g", "i", "n">>
s_unload_all_plugins ==
    <<"u", "n", "l", "o", "a", "d", "-", "a", "l", "l", "-", "p", "l", "u", "g", "i", "n", "s">>
s_count == <<"c", "o", "u", "n", "t">>
s_reset_counter == <<"r", "e", "s", "e", "t", "-", "c", "o", "u", "n", "t", "e", "r">>
s_a_b == <<"a", " ", "b">>
s_a == <<"a">>
s_b == <<"b">>
s_c == <<"c">>
s_zap == <<"z", "a", "p">>
SP == <<" ">>
NL == <<"\n">>

ffi_custom_prompt == "ffi_custom_prompt"
ffi_register_commands == "ffi_register_commands"
ffi_plugin_on_load == "ffi_plugin_on_load"

BuiltinCommands == {s_help, s_echo, s_exit, s_load_plugin, s_unload_all_plugins}

\* Names a module may register a handler under.
Names == {s_count, s_reset_counter, s_help, s_a_b}

----------------------------------------------------------------------------
(* The files dlopen can be asked for: path -> exported symbols. *)

p_good == <<"g">>        \* exports both entry points
p_noprompt == <<"n">>    \* lacks ffi_custom_prompt
p_sample == <<"s">>      \* the sample plugin of this repository
p_missing == <<"x">>     \* no such file
p_nul == <<NUL>>         \* a path with an interior NUL byte

Paths == {p_good, p_noprompt, p_sample, p_missing, p_nul}

SamplePluginExports == {ffi_custom_prompt, ffi_plugin_on_load}

Exports(p) ==
    CASE p = p_good -> {ffi_custom_prompt, ffi_register_commands}
      [] p = p_noprompt -> {ffi_register_commands}
      [] p = p_sample -> SamplePluginExports
      [] OTHER -> {}

Loadable(p) == p \in {p_good, p_noprompt, p_sample}

----------------------------------------------------------------------------
(* parse_command *)

IsWhitespace(c) == c \in {" ", "\n", "\t"}

RECURSIVE trim_start(_)
trim_start(s) ==
    IF s # <<>> /\ IsWhitespace(Head(s)) THEN trim_start(Tail(s)) ELSE s

RECURSIVE trim_end(_)
trim_end(s) ==
    IF s # <<>> /\ IsWhitespace(s[Len(s)])
    THEN trim_end(SubSeq(s, 1, Len(s) - 1))
    ELSE s

trim(s) == trim_end(trim_start(s))

\* split_whitespace: the maximal runs of non-whitespace characters, in order.
RECURSIVE split_ws(_, _, _)
split_ws(s, cur, acc) ==
    IF s = <<>>
    THEN IF cur = <<>> THEN acc ELSE Append(acc, cur)
    ELSE IF IsWhitespace(Head(s))
         THEN split_ws(Tail(s), <<>>, IF cur = <<>> THEN acc ELSE Append(acc, cur))
         ELSE split_ws(Tail(s), Append(cur, Head(s)), acc)

split_whitespace(s) == split_ws(s, <<>>, <<>>)

parse_command(s) ==
    LET toks == split_whitespace(trim(s))
    IN  IF toks = <<>> THEN None
        ELSE Some([command |-> Head(toks), args |-> Tail(toks)])

\* The lines standard input may deliver; the empty line is end of input.
Lines ==
    {<<>>, NL, s_help \o NL, SP \o s_help \o SP \o NL, s_echo \o SP \o s_a \o NL,
     s_exit \o NL, s_load_plugin \o NL, s_unload_all_plugins \o NL,
     s_count \o SP \o s_a \o SP \o s_b \o SP \o s_c \o NL, s_zap \o NL}
    \cup {s_load_plugin \o SP \o p \o NL : p \in Paths}
    \cup {n \o NL : n \in Names}

\* The match of run with the arm for help left out.
match_without_help(command) ==
    CASE command = s_echo -> "echo"
      [] command = s_exit -> "exit"
      [] command = s_load_plugin -> "load-plugin"
      [] command = s_unload_all_plugins -> "unload-all-plugins"
      [] OTHER -> "_"

\* The match of run on the command word.
match_command(command) ==
    CASE command = s_help -> "help"
      [] command = s_echo -> "echo"
      [] command = s_exit -> "exit"
      [] command = s_load_plugin -> "load-plugin"
      [] command = s_unload_all_plugins -> "unload-all-plugins"
      [] OTHER -> "_"

\* parse_command of every line, and the arm of the match it is run by.
Parsed == [l \in Lines |-> parse_command(l)]

Arm == [l \in Lines |->
          IF Parsed[l] = None THEN "continue" ELSE match_command(unwrap(Parsed[l]).command)]

\* The line read is a command that run matches as `arm`.
Reads(l, arm) == Arm[l] = arm

ArgsOf(l) == unwrap(Parsed[l]).args

CommandOf(l) == unwrap(Parsed[l]).command

----------------------------------------------------------------------------
(* plugin-sdk: FfiSafeString and CommandHandler *)

FfiSafeString_new(s) == [data |-> s, len |-> Len(s)]

FfiSafeString_as_str(fs) == SubSeq(fs.data, 1, fs.len)

\* A handler: its name, the module whose code closure_fn and drop_fn point into,
\* the number of times its captured-state storage was released, and the calls
\* made on it while it is destroyed, in order.
CommandHandler_new(name, m) ==
    [name |-> FfiSafeString_new(name), code |-> m, closure_frees |-> 0, log |-> <<>>]

CommandHandler_name(h) == FfiSafeString_as_str(h.name)

\* CommandHandler::drop::<F>: Box::from(closure_ptr) boxes the raw pointer itself
\* (a Box<*mut F>) and frees that box; the storage closure_ptr points to is not
\* released.
drop_fn(h) == [h EXCEPT !.log = Append(@, "drop_fn")]

FfiSafeString_drop(h) == [h EXCEPT !.log = Append(@, "free_name")]

\* impl Drop for CommandHandler, followed by the drop of its fields.
Drop_CommandHandler(h) == FfiSafeString_drop(drop_fn(h))

FfiSafeStr_new(s) == [data |-> s, len |-> Len(s)]

FfiSafeStr_as_str(v) == SubSeq(v.data, 1, v.len)

\* A slice that leaves out its last element.
FfiSafeSlice_short(v) == [data |-> v, len |-> IF Len(v) > 0 THEN Len(v) - 1 ELSE 0]

FfiSafeSlice_new(v) == [data |-> v, len |-> Len(v)]

FfiSafeSlice_as_slice(sl) == SubSeq(sl.data, 1, sl.len)

\* The closure the sample plugin registers as count: it reports the number of
\* arguments and yields Ok.
sample_count(args) == [reported |-> Some(Len(args)), res |-> "Ok"]

\* A closure that yields Err.
failing_callable(args) == [reported |-> None, res |-> "Err"]

\* What the callable captured by a handler may do when it is called.
Callables == {"sample_count", "fails"}

Callable(c, args) == IF c = "sample_count" THEN sample_count(args) ELSE failing_callable(args)

\* CommandHandler::trampoline::<F>: the arguments are read back from the slice of
\* borrowed strings, the callable is called with them, and an Err is printed and
\* turned into false.
trampoline(c, ffi_args) ==
    LET slice == FfiSafeSlice_as_slice(ffi_args)
        args_copy == [i \in 1..Len(slice) |-> FfiSafeStr_as_str(slice[i])]
        r == Callable(c, args_copy)
    IN  [received |-> args_copy, reported |-> r.reported, res |-> r.res,
         error_printed |-> r.res = "Err", ok |-> r.res # "Err"]

\* CommandHandler::call: a borrowed view of every argument, and the trampoline
\* called on the slice of them.
CommandHandler_call(c, args) ==
    LET args_copy == [i \in 1..Len(args) |-> FfiSafeStr_new(args[i])]
    IN  trampoline(c, FfiSafeSlice_new(args_copy))

\* Dropping every handler of the set of ids S.
drop_all(hs, S) ==
    [i \in DOMAIN hs |-> IF i \in S THEN Drop_CommandHandler(hs[i]) ELSE hs[i]]

----------------------------------------------------------------------------
(* host-program: PluginState *)

EmptyRegistry == [n \in {} |-> 0]

Range(f) == {f[x] : x \in DOMAIN f}

contains_key(map, k) == k \in DOMAIN map

\* Every key made to refer to the value inserted last.
insert_shared(map, k, v) == [n \in DOMAIN map \cup {k} |-> v]

insert(map, k, v) == [n \in DOMAIN map \cup {k} |-> IF n = k THEN v ELSE map[n]]

Ev(op, arg) == [op |-> op, arg |-> arg]

DlsymEv(name, found) == Ev("dlsym", [name |-> name, found |-> found])

Init ==
    /\ pc = "prompt"
    /\ module = NULL
    /\ path = None
    /\ custom_prompt_function = None
    /\ custom_commands = EmptyRegistry
    /\ handlers = <<>>
    /\ nloads = 0
    /\ opened = {}
    /\ prompt = Ev("none", NULL)
    /\ line = <<>>
    /\ events = <<>>
    /\ unloaded_names = {}

\* What the loop leaves alone between commands.
Loader == <<nloads, opened, unloaded_names>>

----------------------------------------------------------------------------
(* run: the prompt *)

\* display_command_line_prompt: the custom prompt function if there is one, else
\* "> " and a flush, which may fail.
display_command_line_prompt ==
    /\ pc = "prompt"
    /\ IF custom_prompt_function # None
       THEN /\ prompt' = Ev("custom", unwrap(custom_prompt_function))
            /\ pc' = "read"
       ELSE /\ prompt' = Ev("default", NULL)
            /\ \E flushed \in BOOLEAN : pc' = IF flushed THEN "read" ELSE "error"
    /\ UNCHANGED <<plugin_state, handlers, line, events, Loader>>

\* run returns: plugin_state goes out of scope and its registry is dropped.
run_returns(to) ==
    /\ pc' = to
    /\ custom_commands' = EmptyRegistry
    /\ handlers' = drop_all(handlers, Range(custom_commands))

\* read_line fails.
read_line_error ==
    /\ pc = "read"
    /\ pc' = "error"
    /\ line' = <<>>
    /\ events' = <<Ev("read_line", "error")>>
    /\ UNCHANGED <<plugin_state, handlers, prompt, Loader>>

\* End of input: break.
read_eof ==
    /\ pc = "read"
    /\ line' = <<>>
    /\ events' = <<Ev("print", "Good bye!")>>
    /\ run_returns("returned_ok")
    /\ UNCHANGED <<module, path, custom_prompt_function, prompt, Loader>>

\* A line with no command on it: continue.
read_blank ==
    /\ pc = "read"
    /\ \E l \in Lines :
         /\ l # <<>>
         /\ Parsed[l] = None
         /\ line' = l
    /\ events' = <<>>
    /\ pc' = "prompt"
    /\ UNCHANGED <<plugin_state, handlers, prompt, Loader>>

\* The error printed where it arose, and the loop going on.
error_swallowed ==
    /\ pc = "error"
    /\ events' = Append(events, Ev("eprint", "ERROR"))
    /\ pc' = "prompt"
    /\ UNCHANGED <<plugin_state, handlers, prompt, line, Loader>>

\* The `?` of run: an error of a command ends run; main prints it and its backtrace.
main_reports_error ==
    /\ pc = "error"
    /\ events' = Append(events, Ev("eprint", "ERROR"))
    /\ run_returns("returned_err")
    /\ UNCHANGED <<module, path, custom_prompt_function, prompt, line, Loader>>

----------------------------------------------------------------------------
(* run: the built-in commands *)

\* The orders in which the keys of a HashMap may be iterated.
KeyOrders(map) ==
    LET n == Cardinality(DOMAIN map)
    IN  {o \in [1..n -> DOMAIN map] : \A i, j \in 1..n : o[i] = o[j] => i = j}

do_command_help ==
    /\ pc = "read"
    /\ \E l \in Lines :
         /\ Reads(l, "help")
         /\ line' = l
    /\ \E order \in KeyOrders(custom_commands) :
         events' = <<Ev("help", order)>>
    /\ pc' = "prompt"
    /\ UNCHANGED <<plugin_state, handlers, prompt, Loader>>

do_command_echo ==
    /\ pc = "read"
    /\ \E l \in Lines :
         /\ Reads(l, "echo")
         /\ line' = l
         /\ events' = <<Ev("echo", ArgsOf(l))>>
    /\ pc' = "prompt"
    /\ UNCHANGED <<plugin_state, handlers, prompt, Loader>>

\* "exit": break.
command_exit ==
    /\ pc = "read"
    /\ \E l \in Lines :
         /\ Reads(l, "exit")
         /\ line' = l
    /\ events' = <<Ev("print", "Good bye!")>>
    /\ run_returns("returned_ok")
    /\ UNCHANGED <<module, path, custom_prompt_function, prompt, Loader>>

----------------------------------------------------------------------------
(* load-plugin *)

\* The guard left out.
never_loaded(p) == FALSE

\* The guard of do_command_load_plugin: a plugin is loaded already.
already_loaded(p) == p # None

\* CString::new: an interior NUL byte is an error.
CString_new(s) == IF \E i \in DOMAIN s : s[i] = NUL THEN None ELSE Some(s)

\* dlopen: a fresh handle, or NULL.
dlopen(p, n) == IF Loadable(p) THEN n + 1 ELSE NULL

\* plugin_state.path once dlopen has returned m: it is set only past the NULL check.
path_set_before_check(cur, p, m) == CString_new(p)

path_after_dlopen(cur, p, m) == IF m = NULL THEN cur ELSE CString_new(p)

\* The result of dlsym used without the NULL check.
load_symbol_unchecked(p, name) == Some(name)

\* load_symbol: dlsym on the module opened from file p.
load_symbol(p, name) == IF name \in Exports(p) THEN Some(name) ELSE None

do_command_load_plugin ==
    /\ pc = "read"
    /\ \E l \in Lines :
         /\ Reads(l, "load-plugin")
         /\ line' = l
         /\ IF already_loaded(path)
            THEN /\ events' = <<Ev("print", "plugin already loaded")>>
                 /\ pc' = "prompt"
                 /\ UNCHANGED <<module, path, custom_prompt_function, Loader>>
            ELSE IF Len(ArgsOf(l)) # 1
            THEN /\ events' = <<Ev("print", "expected a file path")>>
                 /\ pc' = "prompt"
                 /\ UNCHANGED <<module, path, custom_prompt_function, Loader>>
            ELSE IF CString_new(ArgsOf(l)[1]) = None
            THEN /\ events' = <<Ev("CString::new", "error")>>
                 /\ pc' = "error"
                 /\ UNCHANGED <<module, path, custom_prompt_function, Loader>>
            ELSE LET p == ArgsOf(l)[1]
                     m == dlopen(p, nloads)
                 IN  IF m = NULL
                     THEN /\ events' = <<Ev("dlopen", NULL)>>
                          /\ pc' = "error"
                          /\ path' = path_after_dlopen(path, p, m)
                          /\ UNCHANGED <<module, custom_prompt_function, Loader>>
                     ELSE /\ nloads < MaxLoads
                          /\ nloads' = m
                          /\ opened' = opened \cup {m}
                          /\ unloaded_names' = {}
                          /\ module' = m
                          /\ path' = path_after_dlopen(path, p, m)
                          /\ IF load_symbol(p, ffi_custom_prompt) = None
                             THEN /\ custom_prompt_function' = custom_prompt_function
                                  /\ events' = <<Ev("dlopen", m), DlsymEv(ffi_custom_prompt, FALSE)>>
                                  /\ pc' = "error"
                             ELSE /\ custom_prompt_function' = Some(m)
                                  /\ IF load_symbol(p, ffi_register_commands) = None
                                     THEN /\ events' = <<Ev("dlopen", m),
                                                         DlsymEv(ffi_custom_prompt, TRUE),
                                                         DlsymEv(ffi_register_commands, FALSE)>>
                                          /\ pc' = "error"
                                     ELSE /\ events' = <<Ev("dlopen", m),
                                                         DlsymEv(ffi_custom_prompt, TRUE),
                                                         DlsymEv(ffi_register_commands, TRUE),
                                                         Ev("register_commands", m)>>
                                          /\ pc' = "registering"
    /\ UNCHANGED <<custom_commands, handlers, prompt>>

\* HashMap::insert from the start: the handler registered last replaces the first.
register_overwrite(map, name, id) == [ok |-> TRUE, map |-> insert(map, name, id)]

\* ffi_register_command on the registry: whether the handler is accepted, and the
\* registry afterwards.
register(map, name, id) ==
    IF contains_key(map, name)
    THEN [ok |-> FALSE, map |-> map]
    ELSE [ok |-> TRUE, map |-> insert(map, name, id)]

Registrations(evs) == {i \in DOMAIN evs : evs[i].op = "ffi_register_command"}

\* The module's register-commands function builds a handler and calls
\* ffi_register_command with it; a rejected handler is dropped by the host when
\* ffi_register_command returns.
ffi_register_command ==
    /\ pc = "registering"
    /\ Len(handlers) < MaxHandlers
    /\ Cardinality(Registrations(events)) < MaxRegs
    /\ \E name \in Names :
         LET id == Len(handlers) + 1
             h == CommandHandler_new(name, module)
             r == register(custom_commands, CommandHandler_name(h), id)
         IN  /\ custom_commands' = r.map
             /\ handlers' = Append(handlers, IF r.ok THEN h ELSE Drop_CommandHandler(h))
             /\ events' = Append(events, Ev("ffi_register_command",
                                            [id |-> id, name |-> name, ok |-> r.ok]))
    /\ UNCHANGED <<pc, module, path, custom_prompt_function, prompt, line, Loader>>

\* The module's register-commands function returns, and do_command_load_plugin
\* returns Ok.
register_commands_returns ==
    /\ pc = "registering"
    /\ pc' = "prompt"
    /\ UNCHANGED <<plugin_state, handlers, prompt, line, events, Loader>>

----------------------------------------------------------------------------
(* unload-all-plugins *)

\* The guard left out: dlclose is called whatever the path.
always_loaded(p) == FALSE

\* The guard of do_command_unload_all_plugins: nothing is loaded.
nothing_loaded(p) == p = None

\* The registry left as it is.
not_cleared(map) == map

\* HashMap::clear.
clear(map) == EmptyRegistry

\* The path taken out before the result of dlclose is looked at.
path_taken_before_check(cur, rc) == None

\* plugin_state.path once dlclose has returned rc: it is taken only past the check.
path_after_dlclose(cur, rc) == IF rc # 0 THEN cur ELSE None

\* What dlclose may return.
DlcloseResults == {0, -1}

\* dlclose is called first; only when it returned 0 are the path, the module, the
\* prompt pointer and the registry reset, in this order.  Clearing the registry
\* drops every handler: each drop calls the handler's drop_fn, which is code of the
\* module just closed.  Where dlclose removed that code from the address space the
\* call faults and the process dies; where it left it in place the call runs.
do_command_unload_all_plugins ==
    /\ pc = "read"
    /\ \E l \in Lines :
         /\ Reads(l, "unload-all-plugins")
         /\ line' = l
    /\ IF nothing_loaded(path)
       THEN /\ events' = <<Ev("print", "no plugins loaded yet")>>
            /\ pc' = "prompt"
            /\ UNCHANGED <<plugin_state, handlers, Loader>>
       ELSE \E rc \in DlcloseResults :
              IF rc # 0
              THEN /\ events' = <<Ev("dlclose", [module |-> module, rc |-> rc])>>
                   /\ pc' = "error"
                   /\ path' = path_after_dlclose(path, rc)
                   /\ UNCHANGED <<module, custom_prompt_function, custom_commands,
                                  handlers, Loader>>
              ELSE \E unmapped \in BOOLEAN :
                     /\ events' = <<Ev("dlclose", [module |-> module, rc |-> rc]),
                                    Ev("print", "unloaded plugin"),
                                    Ev("reset", module),
                                    Ev("drop_fn", Range(custom_commands))>>
                     /\ path' = path_after_dlclose(path, rc)
                     /\ module' = NULL
                     /\ custom_prompt_function' = None
                     /\ nloads' = nloads
                     /\ opened' = opened \ {module}
                     /\ IF unmapped /\ Range(custom_commands) # {}
                        THEN /\ pc' = "crashed"
                             /\ UNCHANGED <<custom_commands, handlers, unloaded_names>>
                        ELSE /\ pc' = "prompt"
                             /\ unloaded_names' = DOMAIN custom_commands
                             /\ custom_commands' = clear(custom_commands)
                             /\ handlers' = drop_all(handlers, Range(custom_commands))
    /\ UNCHANGED prompt

----------------------------------------------------------------------------
(* commands of plugins *)

\* HashMap::get.
get(map, k) == IF k \in DOMAIN map THEN Some(map[k]) ELSE None

\* The loop ended by a handler that returned false.
stop_on_failure(ok) == IF ok THEN "prompt" ELSE "error"

\* Where run goes after handler.call: the result is dropped and do_plugin_command
\* returns Ok(true).
after_call(ok) == "prompt"

\* do_plugin_command and the `_` arm of run: the handler registered under the
\* command word is called with the arguments, and its result is ignored; with no
\* such handler the command is unknown.
do_plugin_command ==
    /\ pc = "read"
    /\ \E l \in Lines :
         /\ Reads(l, "_")
         /\ line' = l
         /\ LET handler == get(custom_commands, CommandOf(l))
            IN  IF handler = None
                THEN /\ events' = <<Ev("print", "unknown command")>>
                     /\ pc' = "prompt"
                ELSE \E c \in Callables :
                       LET r == CommandHandler_call(c, ArgsOf(l))
                       IN  /\ events' = <<Ev("closure_fn",
                                             [id |-> unwrap(handler), callable |-> c,
                                              args |-> ArgsOf(l), received |-> r.received,
                                              reported |-> r.reported, res |-> r.res,
                                              error_printed |-> r.error_printed,
                                              ok |-> r.ok])>>
                           /\ pc' = after_call(r.ok)
    /\ UNCHANGED <<plugin_state, handlers, prompt, Loader>>

----------------------------------------------------------------------------

Next ==
    \/ display_command_line_prompt
    \/ read_line_error
    \/ read_eof
    \/ read_blank
    \/ main_reports_error
    \/ do_command_help
    \/ do_command_echo
    \/ command_exit
    \/ do_command_load_plugin
    \/ ffi_register_command
    \/ register_commands_returns
    \/ do_command_unload_all_plugins
    \/ do_plugin_command

Spec == Init /\ [][Next]_vars

----------------------------------------------------------------------------
(* Claims *)

ProcessOver == pc \in {"returned_ok", "returned_err", "crashed"}

\* A call of code that lives in a module.
ModuleCall(e) == (e.op = "drop_fn" /\ e.arg # {}) \/ e.op = "closure_fn"

Released(e) == e.op = "dlclose" /\ e.arg.rc = 0

\* C1: no invoke trampoline, destroy trampoline or prompt function of a module
\* is called after that module has been released: within a command no such call
\* follows the dlclose that returned 0, and a custom prompt that was rendered is
\* the prompt of the module that is loaded.
C1_NoCallAfterRelease ==
    /\ \A i, j \in DOMAIN events :
         (i < j /\ Released(events[i])) => ~ModuleCall(events[j])
    /\ (pc = "read" /\ prompt.op = "custom") => prompt.arg = module

Count(seq, x) == Cardinality({i \in DOMAIN seq : seq[i] = x})

\* The handler has been destroyed: its destruction ran to the end.
Destroyed(h) == Count(h.log, "free_name") > 0

\* C2: the captured-state storage of a handler is released at most once, and
\* exactly once by the time the handler has been destroyed.
C2_CapturedStateReleasedOnce ==
    \A i \in DOMAIN handlers :
        /\ handlers[i].closure_frees <= 1
        /\ Destroyed(handlers[i]) => handlers[i].closure_frees = 1

\* The handler is owned by nobody any more: it is not in the registry, or the
\* process is over.
LifetimeOver(i) == i \notin Range(custom_commands) \/ ProcessOver

\* C3: the destroy trampoline of a handler runs exactly once over the handler's
\* lifetime, and the name buffer is released exactly once, after it.
C3_DestroyExactlyOnce ==
    \A i \in DOMAIN handlers :
        /\ Count(handlers[i].log, "drop_fn") <= 1
        /\ Count(handlers[i].log, "free_name") <= 1
        /\ LifetimeOver(i) => handlers[i].log = <<"drop_fn", "free_name">>

\* C3 away from the fault of C1: everywhere but in a process that died calling
\* into the released module, the handler is destroyed exactly once.
C3_ExceptAfterFault == pc # "crashed" => C3_DestroyExactlyOnce

----------------------------------------------------------------------------

Printed(evs, msg) == Len(evs) = 1 /\ evs[1].op = "print" /\ evs[1].arg = msg

NothingLoaded ==
    /\ module = NULL
    /\ path = None
    /\ custom_prompt_function = None
    /\ custom_commands = EmptyRegistry
    /\ opened = {}

ErrorReturned == pc \in {"error", "returned_err"}

\* The load-plugin read last failed on its path: CString::new refused it, or
\* dlopen returned NULL.
LoadFailedToOpen ==
    /\ Arm[line] = "load-plugin"
    /\ events # <<>>
    /\ \/ events[1].op = "CString::new"
       \/ (events[1].op = "dlopen" /\ events[1].arg = NULL)

SymbolMissing ==
    /\ Arm[line] = "load-plugin"
    /\ \E i \in DOMAIN events : events[i].op = "dlsym" /\ ~events[i].arg.found

\* C5: when the module opened but an entry symbol is missing, the host keeps
\* running and the module handle, the path and the prompt pointer are not left set.
C5_MissingSymbolLeavesNothingLoaded ==
    SymbolMissing =>
        /\ module = NULL
        /\ path = None
        /\ custom_prompt_function = None
        /\ ~ErrorReturned

\* C6: at most one module is open at any time, and load-plugin issued while a
\* module is loaded calls no dlopen, prints the message, leaves the plugin state
\* as it is and goes on to the next prompt.
C6_SecondLoadRejected ==
    /\ [](Cardinality(opened) <= 1)
    /\ [][(pc = "read" /\ Arm[line'] = "load-plugin" /\ path # None) =>
            /\ plugin_state' = plugin_state
            /\ nloads' = nloads
            /\ opened' = opened
            /\ Printed(events', "plugin already loaded")
            /\ pc' = "prompt"]_vars

C6_Witness ==
    /\ path # None
    /\ Arm[line] = "load-plugin"
    /\ Printed(events, "plugin already loaded")
    /\ pc = "prompt"

\* The unload-all-plugins read last released the module and returned Ok.
UnloadSucceeded ==
    /\ Arm[line] = "unload-all-plugins"
    /\ pc = "prompt"
    /\ events # <<>>
    /\ Released(events[1])

----------------------------------------------------------------------------

\* The line read last is the name n and nothing else.
Typed(n) == line = n \o NL

\* The command read last called the invoke trampoline of handler id, and did
\* nothing else.
Invoked(id) == Len(events) = 1 /\ events[1].op = "closure_fn" /\ events[1].arg.id = id

\* The command read last invoked the handler that the loaded module built under
\* the name n, and did nothing else.
InvokedOwn(n) ==
    \E id \in DOMAIN handlers :
        /\ Invoked(id)
        /\ handlers[id].code = module
        /\ CommandHandler_name(handlers[id]) = n

\* The handlers built by the module that is loaded have pairwise distinct names.
DistinctNames ==
    \A i, j \in DOMAIN handlers :
        (i # j /\ handlers[i].code = module /\ handlers[j].code = module) =>
            CommandHandler_name(handlers[i]) # CommandHandler_name(handlers[j])

\* A registration under a name that no earlier registration of this load used is
\* accepted.
DistinctAccepted ==
    \A i \in Registrations(events) :
        (\A j \in Registrations(events) : j < i => events[j].arg.name # events[i].arg.name)
            => events[i].arg.ok

\* A name that can be typed as a command word: one word, no whitespace in it.
OneWord(n) == split_whitespace(n) = <<n>>

\* C8 as stated: registrations with pairwise distinct names are all accepted, and
\* typing any registered name invokes the handler registered under that name and
\* nothing else.
C8_EveryNameDispatches ==
    /\ DistinctAccepted
    /\ \A n \in DOMAIN custom_commands :
         (pc = "prompt" /\ DistinctNames /\ Typed(n)) => InvokedOwn(n)

\* C8 as amended: registrations with pairwise distinct names are all accepted, and
\* typing a registered name that is one whitespace-free word and not the name of a
\* built-in command invokes the handler registered under that name and nothing else.
C8_EveryTypableNameDispatches ==
    /\ DistinctAccepted
    /\ \A n \in DOMAIN custom_commands :
         (pc = "prompt" /\ DistinctNames /\ Typed(n)
            /\ OneWord(n) /\ n \notin BuiltinCommands) => InvokedOwn(n)

C8_Witness ==
    /\ pc = "prompt"
    /\ DistinctNames
    /\ Cardinality(DOMAIN custom_commands) >= 2
    /\ \E n \in DOMAIN custom_commands :
         Typed(n) /\ OneWord(n) /\ n \notin BuiltinCommands /\ InvokedOwn(n)

\* C9: a registration under a name that is in the registry returns false and
\* leaves the registry as it is, and the module's registration call goes on.
C9_DuplicateRejected ==
    [][(/\ pc = "registering"
        /\ Len(handlers') = Len(handlers) + 1
        /\ contains_key(custom_commands, CommandHandler_name(handlers'[Len(handlers')])))
       => /\ custom_commands' = custom_commands
          /\ events'[Len(events')].op = "ffi_register_command"
          /\ ~events'[Len(events')].arg.ok
          /\ pc' = "registering"]_vars

\* A duplicate was rejected, the load returned, and the name still refers to the
\* handler registered first.
C9_Witness ==
    /\ pc = "prompt"
    /\ \E i \in Registrations(events) :
         /\ ~events[i].arg.ok
         /\ contains_key(custom_commands, events[i].arg.name)
         /\ custom_commands[events[i].arg.name] < events[i].arg.id

\* The load-plugin read last opened a module that has no ffi_custom_prompt.
PromptSymbolMissing ==
    /\ Arm[line] = "load-plugin"
    /\ \E i \in DOMAIN events :
         /\ events[i].op = "dlsym"
         /\ events[i].arg.name = ffi_custom_prompt
         /\ ~events[i].arg.found

\* C10: a module that lacks the custom prompt entry point still loads; whenever a
\* prompt has been rendered it is the prompt function of the loaded module if the
\* module has one, and the default prompt otherwise.
C10_PromptOptional ==
    /\ PromptSymbolMissing => ~ErrorReturned
    /\ pc = "read" =>
         IF path # None /\ ffi_custom_prompt \in Exports(unwrap(path))
         THEN prompt.op = "custom" /\ prompt.arg = module
         ELSE prompt.op = "default"

----------------------------------------------------------------------------
(* The sample plugin *)

MaxCounter == 3     \* values of the sample plugin's COUNTER that are looked at

\* ffi_custom_prompt of the sample plugin: shows COUNTER, then increments it.
sample_custom_prompt(counter) == [shown |-> counter, counter |-> counter + 1]

\* The closure the sample plugin registers as reset-counter: COUNTER = 0.
sample_reset_counter(counter) == 0

\* The names ffi_plugin_on_load of the sample plugin registers, in order.
sample_on_load_names == <<s_reset_counter, s_count>>

\* The load-plugin read last named the sample plugin, opened it and has returned.
SampleLoadDone ==
    /\ Arm[line] = "load-plugin"
    /\ ArgsOf(line) = <<p_sample>>
    /\ events # <<>>
    /\ events[1].op = "dlopen"
    /\ pc # "registering"

\* C11: once load-plugin has loaded the sample plugin, reset-counter and count
\* are registered and the prompt is the plugin's; and the prompt rendered right
\* after reset-counter shows the counter at 0.
C11_SamplePluginLoads ==
    /\ SampleLoadDone =>
         /\ ~ErrorReturned
         /\ DOMAIN custom_commands = {sample_on_load_names[i] : i \in 1..2}
         /\ custom_prompt_function = Some(module)
    /\ \A c \in 0..MaxCounter :
         sample_custom_prompt(sample_reset_counter(c)).shown = 0

----------------------------------------------------------------------------

\* The command read last had the platform loader report an error.
LoaderFailure ==
    \E i \in DOMAIN events :
        \/ (events[i].op = "dlopen" /\ events[i].arg = NULL)
        \/ (events[i].op = "dlsym" /\ ~events[i].arg.found)
        \/ (events[i].op = "dlclose" /\ events[i].arg.rc # 0)

\* C12: a loader failure ends the loop: the error is on its way out of run or
\* has been printed by main; from the error the only step is main printing the
\* diagnostic, with no command read; and once run has returned nothing is read
\* or dispatched any more.
C12_LoaderFailureEndsRun ==
    /\ [](LoaderFailure => ErrorReturned)
    /\ [][pc = "error" =>
            /\ pc' = "returned_err"
            /\ line' = line
            /\ events' = Append(events, Ev("eprint", "ERROR"))]_vars
    /\ [][pc \notin {"returned_err", "returned_ok"}]_vars

C12_Witness ==
    /\ LoaderFailure
    /\ pc = "returned_err"
    /\ events[Len(events)].op = "eprint"

----------------------------------------------------------------------------

\* The command read last called a handler.
Called == Len(events) = 1 /\ events[1].op = "closure_fn"

\* C13: a handler whose callable yields failure does not end the loop: the
\* trampoline prints the diagnostic and returns false, the dispatch leaves the
\* plugin state and the handlers as they were, and the next prompt follows.
C13_FailingHandlerKeepsLoop ==
    [][(/\ pc = "read"
        /\ Len(events') = 1
        /\ events'[1].op = "closure_fn"
        /\ events'[1].arg.res = "Err")
       => /\ events'[1].arg.error_printed
          /\ ~events'[1].arg.ok
          /\ plugin_state' = plugin_state
          /\ handlers' = handlers
          /\ pc' = "prompt"]_vars

C13_Witness ==
    /\ Called
    /\ events[1].arg.res = "Err"
    /\ ~events[1].arg.ok
    /\ pc = "read"

\* C16: the callable of a handler receives exactly the arguments given to call,
\* and call returns true exactly when the callable yielded Ok; the count closure
\* of the sample plugin called with a b c reports 3 arguments and succeeds.
C16_CallPassesArguments ==
    Called =>
        /\ events[1].arg.received = events[1].arg.args
        /\ events[1].arg.ok <=> events[1].arg.res = "Ok"
        /\ (events[1].arg.callable = "sample_count" /\ events[1].arg.args = <<s_a, s_b, s_c>>)
              => (events[1].arg.reported = Some(3) /\ events[1].arg.ok)

C16_Witness ==
    /\ Called
    /\ events[1].arg.callable = "sample_count"
    /\ events[1].arg.args = <<s_a, s_b, s_c>>
    /\ events[1].arg.reported = Some(3)

----------------------------------------------------------------------------

RegisterCalls(evs) == {i \in DOMAIN evs : evs[i].op = "register_commands"}

\* The load-plugin read last opened a module and resolved every entry point.
LoadSucceeded ==
    /\ Arm[line] = "load-plugin"
    /\ events # <<>>
    /\ events[1].op = "dlopen"
    /\ events[1].arg # NULL
    /\ ~LoaderFailure

\* C14: the register-commands entry point is called once by a load-plugin that
\* succeeded and by nothing else; it is an entry point the module exports; it is
\* called after the handle and the path were recorded in the plugin state; and the
\* registrations it makes land in that plugin state.
C14_RegisterCalledOncePerLoad ==
    /\ Cardinality(RegisterCalls(events)) = IF LoadSucceeded THEN 1 ELSE 0
    /\ \A i \in RegisterCalls(events) :
         /\ i > 1
         /\ events[1].op = "dlopen"
         /\ events[i].arg = events[1].arg
         /\ ~ProcessOver =>
              /\ module = events[i].arg
              /\ module \in opened
              /\ path # None
              /\ ffi_register_commands \in Exports(unwrap(path))
    /\ ~ProcessOver =>
         \A i \in Registrations(events) :
            events[i].arg.ok =>
               /\ contains_key(custom_commands, events[i].arg.name)
               /\ custom_commands[events[i].arg.name] = events[i].arg.id

C14_Witness ==
    /\ pc = "prompt"
    /\ LoadSucceeded
    /\ Cardinality(RegisterCalls(events)) = 1
    /\ \E i \in Registrations(events) : events[i].arg.ok

----------------------------------------------------------------------------

\* C15: unload-all-plugins issued while nothing is loaded calls no dlclose,
\* prints the message, leaves the plugin state as it is and goes on to the next
\* prompt.
C15_UnloadWithNothingLoaded ==
    [][(pc = "read" /\ Arm[line'] = "unload-all-plugins" /\ path = None) =>
         /\ Printed(events', "no plugins loaded yet")
         /\ plugin_state' = plugin_state
         /\ handlers' = handlers
         /\ opened' = opened
         /\ pc' = "prompt"]_vars

C15_Witness ==
    /\ Arm[line] = "unload-all-plugins"
    /\ path = None
    /\ Printed(events, "no plugins loaded yet")
    /\ pc = "read"

\* The step is an unload-all-plugins whose dlclose failed.
DlcloseFailed(evs) == Len(evs) = 1 /\ evs[1].op = "dlclose" /\ evs[1].arg.rc # 0

\* C20: when dlclose fails, unload-all-plugins leaves the module handle, the
\* path, the prompt pointer and the registry as they were, destroys no handler,
\* and returns the error.
C20_FailedUnloadChangesNothing ==
    [][(pc = "read" /\ Arm[line'] = "unload-all-plugins" /\ DlcloseFailed(events')) =>
         /\ plugin_state' = plugin_state
         /\ handlers' = handlers
         /\ opened' = opened
         /\ pc' = "error"]_vars

C20_Witness ==
    /\ pc = "error"
    /\ Arm[line] = "unload-all-plugins"
    /\ DlcloseFailed(events)
    /\ path # None
    /\ custom_commands # EmptyRegistry

----------------------------------------------------------------------------

\* The command read last was help.
HelpListed == Len(events) = 1 /\ events[1].op = "help"

\* C17: help lists every registered name once, in the order of registration.
C17_HelpInRegistrationOrder ==
    (HelpListed /\ ~ProcessOver) =>
        LET order == events[1].arg
        IN  /\ {order[i] : i \in DOMAIN order} = DOMAIN custom_commands
            /\ Len(order) = Cardinality(DOMAIN custom_commands)
            /\ \A i, j \in DOMAIN order :
                 i < j => custom_commands[order[i]] < custom_commands[order[j]]

\* C18: whenever the host reads a command, the path is present exactly when the
\* module handle is not null, and a prompt pointer or a registered command implies
\* a loaded module.
C18_StateConsistentAtRead ==
    pc = "read" =>
        /\ path # None <=> module # NULL
        /\ (custom_prompt_function # None \/ custom_commands # EmptyRegistry)
              => (path # None /\ module # NULL)

C18_Witness ==
    /\ pc = "read"
    /\ path # None
    /\ module # NULL
    /\ custom_prompt_function # None
    /\ custom_commands # EmptyRegistry

\* The first thing each built-in command does.
BuiltinFirstOps(command) ==
    CASE command = s_help -> {"help"}
      [] command = s_echo -> {"echo"}
      [] command = s_exit -> {"print"}
      [] command = s_load_plugin -> {"print", "CString::new", "dlopen"}
      [] command = s_unload_all_plugins -> {"print", "dlclose"}
      [] OTHER -> {}

\* C19: a handler registered under the name of a built-in command is accepted
\* like any other, no handler with such a name is ever called, and a line whose
\* command word is a built-in name runs the built-in action.
C19_BuiltinsShadowHandlers ==
    /\ \A i \in Registrations(events) :
         (/\ events[i].arg.name \in BuiltinCommands
          /\ \A j \in Registrations(events) :
               j < i => events[j].arg.name # events[i].arg.name) => events[i].arg.ok
    /\ Called => CommandHandler_name(handlers[events[1].arg.id]) \notin BuiltinCommands
    /\ (Parsed[line] # None /\ CommandOf(line) \in BuiltinCommands) =>
         (events # <<>> /\ events[1].op \in BuiltinFirstOps(CommandOf(line)))

C19_Witness ==
    /\ pc = "prompt"
    /\ contains_key(custom_commands, s_help)
    /\ Parsed[line] # None
    /\ CommandOf(line) = s_help
    /\ HelpListed

====
